---- MODULE Spec2Model ----
(***************************************************************************)
(* Model of the vitamin reminder bot (src/main.py): the per-user daily     *)
(* dose state, the lazy day rollover of the accessor, the reminder         *)
(* callback with its suspension point at the Notifier send, the user       *)
(* handlers, and the job queue that carries the recurring triggers.        *)
(*                                                                         *)
(* Dates are day numbers counted from 1970-01-01 (a Thursday) in the fixed *)
(* time zone.  Within a day the clock is the number of slot instants that  *)
(* have passed (0 = before morning_first, 5 = after final).                *)
(***************************************************************************)
EXTENDS Integers, Sequences, FiniteSets, Bags, TLC

NumUsers == 2
MaxDay == 1
MaxInstalls == 10

Users == 1..NumUsers

VARIABLES today, clock, user_states, registered_users, data_file,
          job_queue, firing, outbox

vars == <<today, clock, user_states, registered_users, data_file,
          job_queue, firing, outbox>>

-----------------------------------------------------------------------------
(* Dates *)

\* datetime.weekday(): Monday = 0 .. Sunday = 6; day 0 is a Thursday (3).
weekday(d) == (d + 3) % 7

\* date.isoformat(): an injective rendering of the date as a string.
isoformat(d) == <<"iso", d>>

is_weekend(d) == weekday(d) >= 5

-----------------------------------------------------------------------------
(* VitaminState *)

VitaminState(now) ==
    [morning_taken |-> FALSE,
     lunch_taken |-> FALSE,
     morning_reminder_count |-> 0,
     lunch_reminder_count |-> 0,
     last_reset |-> isoformat(now)]

\* reset_if_new_day that clears the flags and forgets the counters.
reset_if_new_day_flags_only(state, now) ==
    IF isoformat(now) # state.last_reset
    THEN [state EXCEPT !.morning_taken = FALSE,
                       !.lunch_taken = FALSE,
                       !.last_reset = isoformat(now)]
    ELSE state

\* reset_if_new_day that resets without comparing the dates.
reset_if_new_day_always(state, now) ==
    [state EXCEPT !.morning_taken = FALSE,
                  !.lunch_taken = FALSE,
                  !.morning_reminder_count = 0,
                  !.lunch_reminder_count = 0,
                  !.last_reset = isoformat(now)]

reset_if_new_day(state, now) ==
    IF isoformat(now) # state.last_reset
    THEN [state EXCEPT !.morning_taken = FALSE,
                       !.lunch_taken = FALSE,
                       !.morning_reminder_count = 0,
                       !.lunch_reminder_count = 0,
                       !.last_reset = isoformat(now)]
    ELSE state

to_dict(state) ==
    [morning_taken |-> state.morning_taken,
     lunch_taken |-> state.lunch_taken,
     morning_reminder_count |-> state.morning_reminder_count,
     lunch_reminder_count |-> state.lunch_reminder_count,
     last_reset |-> state.last_reset]

from_dict(data) ==
    [morning_taken |-> data.morning_taken,
     lunch_taken |-> data.lunch_taken,
     morning_reminder_count |-> data.morning_reminder_count,
     lunch_reminder_count |-> data.lunch_reminder_count,
     last_reset |-> data.last_reset]

-----------------------------------------------------------------------------
(* Store: the in-memory maps and the data file *)

\* str(user_id) and int(key): the JSON object keys of 'states'.
str(user_id) == <<"str", user_id>>
int(key) == key[2]

NoFile == [exists |-> FALSE, states |-> <<>>, registered_users |-> {}]

\* The whole table is rewritten; the list of registered users is kept as
\* the set of its elements (load_data applies set() to it).
save_data(states, registered) ==
    [exists |-> TRUE,
     states |-> [k \in {str(u) : u \in DOMAIN states} |-> to_dict(states[int(k)])],
     registered_users |-> registered]

load_states(file) ==
    IF file.exists
    THEN [u \in {int(k) : k \in DOMAIN file.states} |-> from_dict(file.states[str(u)])]
    ELSE <<>>

load_registered(file) == IF file.exists THEN file.registered_users ELSE {}

\* The condition of reset_if_new_day, for a user that has a state.
is_new_day(states, user_id, now) ==
    user_id \in DOMAIN states /\ isoformat(now) # states[user_id].last_reset

\* get_user_state that creates the state if absent and forgets the rollover.
get_user_state_no_rollover(states, user_id, now) ==
    IF user_id \in DOMAIN states
    THEN states
    ELSE states @@ (user_id :> VitaminState(now))

\* get_user_state without its save: create if absent, then roll over.
get_user_state(states, user_id, now) ==
    LET created == IF user_id \in DOMAIN states
                   THEN states
                   ELSE states @@ (user_id :> VitaminState(now))
    IN [created EXCEPT ![user_id] = reset_if_new_day(created[user_id], now)]

-----------------------------------------------------------------------------
(* Schedule tables and the job queue *)

ReminderTypes == <<"morning_first", "morning_second", "lunch_first",
                   "lunch_second", "final">>

TypeSet == {ReminderTypes[i] : i \in DOMAIN ReminderTypes}

\* The keys of times_weekday and of times_weekend.
times_weekday == TypeSet
times_weekend == TypeSet

\* A job name is the f-string's parts, joined by '_'.
Job(reminder_type, user_id, suffix, days) ==
    [name |-> <<reminder_type, user_id, suffix>>,
     chat_id |-> user_id,
     data |-> [type |-> reminder_type],
     days |-> days]

get_jobs_by_name(queue, name) == {job \in BagToSet(queue) : job.name = name}

\* job.schedule_removal() for every job of the set: all its copies leave.
schedule_removal(queue, jobs) ==
    LET rest == BagToSet(queue) \ jobs
    IN [job \in rest |-> queue[job]]

\* run_daily(days=...): 0-6 stand for Sunday-Saturday in the job queue, so
\* the job runs on date d iff (weekday(d) + 1) % 7 is one of its days.
runs_on(job, d) == ((weekday(d) + 1) % 7) \in job.days

schedule_daily_reminders(queue, user_id) ==
    LET current_jobs == get_jobs_by_name(queue, <<"morning_first", user_id>>)
        cleaned == schedule_removal(queue, current_jobs)
        weekday_jobs == {Job(t, user_id, "weekday", {0, 1, 2, 3, 4}) : t \in times_weekday}
        weekend_jobs == {Job(t, user_id, "weekend", {5, 6}) : t \in times_weekend}
    IN cleaned (+) SetToBag(weekday_jobs) (+) SetToBag(weekend_jobs)

\* The number of jobs in the queue whose chat is user_id.
RECURSIVE SumCopies(_, _)
SumCopies(queue, jobs) ==
    IF jobs = {} THEN 0
    ELSE LET job == CHOOSE j \in jobs : TRUE
         IN queue[job] + SumCopies(queue, jobs \ {job})

jobs_of(queue, user_id) ==
    SumCopies(queue, {job \in BagToSet(queue) : job.chat_id = user_id})

\* The jobs the scheduler runs at slot instant i of date d.
due_jobs(queue, d, i) ==
    {job \in BagToSet(queue) : job.data.type = ReminderTypes[i] /\ runs_on(job, d)}

-----------------------------------------------------------------------------
(* Messages *)

Text(kind, names) == [kind |-> kind, names |-> names]

NoText == Text("none", <<>>)

Idle == [pc |-> "idle", type |-> "none", text |-> NoText]

\* What the last step sent out: a handler's reply_text, or the outcome of a
\* reminder's send_message (its text is the one the suspended callback
\* holds); NoOut after a step that sends nothing.  rolled tells whether the
\* handler's accessor call took the new-day branch of reset_if_new_day.
Out(user_id, kind, rolled) == [chat_id |-> user_id, kind |-> kind, rolled |-> rolled]

NoOut == Out(0, "none", FALSE)

\* The log line that ends post_init; it goes to no chat.
Started == Out(0, "started", FALSE)

\* The texts a user can send (the two buttons and anything else), and
\* lower().strip() of each.
UserTexts == {"Da", "Net", "hello"}

lower_strip(text) ==
    CASE text = "Da" -> "da"
      [] text = "Net" -> "net"
      [] OTHER -> text

-----------------------------------------------------------------------------
(* send_vitamin_reminder: the decision, and the mutation that follows *)

\* reminder_text whose lunch branches test lunch_taken first, so that the
\* combined variant is never chosen.
reminder_text_plain_first(reminder_type, state) ==
    CASE reminder_type = "morning_first" ->
           IF ~state.morning_taken THEN Text("morning_first", <<>>) ELSE NoText
      [] reminder_type = "morning_second" ->
           IF ~state.morning_taken THEN Text("morning_second", <<>>) ELSE NoText
      [] reminder_type = "lunch_first" ->
           IF ~state.lunch_taken
           THEN Text("lunch_first", <<>>)
           ELSE IF ~state.morning_taken /\ ~state.lunch_taken
                THEN Text("lunch_first_overdue_morning", <<>>) ELSE NoText
      [] reminder_type = "lunch_second" ->
           IF ~state.lunch_taken
           THEN Text("lunch_second", <<>>)
           ELSE IF ~state.morning_taken /\ ~state.lunch_taken
                THEN Text("lunch_second_overdue_both", <<>>) ELSE NoText
      [] reminder_type = "final" ->
           LET messages == (IF ~state.morning_taken THEN <<"morning">> ELSE <<>>)
                        \o (IF ~state.lunch_taken THEN <<"lunch">> ELSE <<>>)
           IN IF messages # <<>>
              THEN Text("final_missing", messages)
              ELSE Text("congratulation", <<>>)
      [] OTHER -> NoText

\* reminder_text whose morning_second branch sends without testing the flag.
reminder_text_second_unconditional(reminder_type, state) ==
    CASE reminder_type = "morning_first" ->
           IF ~state.morning_taken THEN Text("morning_first", <<>>) ELSE NoText
      [] reminder_type = "morning_second" -> Text("morning_second", <<>>)
      [] reminder_type = "lunch_first" ->
           IF ~state.morning_taken /\ ~state.lunch_taken
           THEN Text("lunch_first_overdue_morning", <<>>)
           ELSE IF ~state.lunch_taken THEN Text("lunch_first", <<>>) ELSE NoText
      [] reminder_type = "lunch_second" ->
           IF ~state.morning_taken /\ ~state.lunch_taken
           THEN Text("lunch_second_overdue_both", <<>>)
           ELSE IF ~state.lunch_taken THEN Text("lunch_second", <<>>) ELSE NoText
      [] reminder_type = "final" ->
           LET messages == (IF ~state.morning_taken THEN <<"morning">> ELSE <<>>)
                        \o (IF ~state.lunch_taken THEN <<"lunch">> ELSE <<>>)
           IN IF messages # <<>>
              THEN Text("final_missing", messages)
              ELSE Text("congratulation", <<>>)
      [] OTHER -> NoText

\* reminder_text whose final branch lists the doses only when none is taken
\* and congratulates as soon as one flag is set.
reminder_text_final_any(reminder_type, state) ==
    CASE reminder_type = "morning_first" ->
           IF ~state.morning_taken THEN Text("morning_first", <<>>) ELSE NoText
      [] reminder_type = "morning_second" ->
           IF ~state.morning_taken THEN Text("morning_second", <<>>) ELSE NoText
      [] reminder_type = "lunch_first" ->
           IF ~state.morning_taken /\ ~state.lunch_taken
           THEN Text("lunch_first_overdue_morning", <<>>)
           ELSE IF ~state.lunch_taken THEN Text("lunch_first", <<>>) ELSE NoText
      [] reminder_type = "lunch_second" ->
           IF ~state.morning_taken /\ ~state.lunch_taken
           THEN Text("lunch_second_overdue_both", <<>>)
           ELSE IF ~state.lunch_taken THEN Text("lunch_second", <<>>) ELSE NoText
      [] reminder_type = "final" ->
           IF ~state.morning_taken /\ ~state.lunch_taken
           THEN Text("final_missing", <<"morning", "lunch">>)
           ELSE Text("congratulation", <<>>)
      [] OTHER -> NoText

\* The message of the branch taken for reminder_type, NoText if the branch
\* sends nothing.
reminder_text(reminder_type, state) ==
    CASE reminder_type = "morning_first" ->
           IF ~state.morning_taken THEN Text("morning_first", <<>>) ELSE NoText
      [] reminder_type = "morning_second" ->
           IF ~state.morning_taken THEN Text("morning_second", <<>>) ELSE NoText
      [] reminder_type = "lunch_first" ->
           IF ~state.morning_taken /\ ~state.lunch_taken
           THEN Text("lunch_first_overdue_morning", <<>>)
           ELSE IF ~state.lunch_taken THEN Text("lunch_first", <<>>) ELSE NoText
      [] reminder_type = "lunch_second" ->
           IF ~state.morning_taken /\ ~state.lunch_taken
           THEN Text("lunch_second_overdue_both", <<>>)
           ELSE IF ~state.lunch_taken THEN Text("lunch_second", <<>>) ELSE NoText
      [] reminder_type = "final" ->
           LET messages == (IF ~state.morning_taken THEN <<"morning">> ELSE <<>>)
                        \o (IF ~state.lunch_taken THEN <<"lunch">> ELSE <<>>)
           IN IF messages # <<>>
              THEN Text("final_missing", messages)
              ELSE Text("congratulation", <<>>)
      [] OTHER -> NoText

\* counter_update writing back the flags as the branch read them before the
\* send (a copy of the state taken before the suspension).
counter_update_stale(reminder_type, state, entered) ==
    CASE reminder_type = "morning_first" /\ entered ->
           [state EXCEPT !.morning_reminder_count = 1, !.morning_taken = FALSE]
      [] reminder_type = "morning_second" /\ entered ->
           [state EXCEPT !.morning_reminder_count = 2, !.morning_taken = FALSE]
      [] reminder_type = "lunch_first" ->
           [state EXCEPT !.lunch_reminder_count = 1,
                         !.lunch_taken = IF entered THEN FALSE ELSE @]
      [] OTHER -> state

\* counter_update with lunch_first's assignment inside the sending branches,
\* as the morning slots have theirs.
counter_update_in_branch(reminder_type, state, entered) ==
    CASE reminder_type = "morning_first" /\ entered ->
           [state EXCEPT !.morning_reminder_count = 1]
      [] reminder_type = "morning_second" /\ entered ->
           [state EXCEPT !.morning_reminder_count = 2]
      [] reminder_type = "lunch_first" /\ entered ->
           [state EXCEPT !.lunch_reminder_count = 1]
      [] OTHER -> state

\* counter_update whose morning branches add one to the counter where the
\* code assigns 1 and 2.
counter_update_increment(reminder_type, state, entered) ==
    CASE reminder_type = "morning_first" /\ entered ->
           [state EXCEPT !.morning_reminder_count = @ + 1]
      [] reminder_type = "morning_second" /\ entered ->
           [state EXCEPT !.morning_reminder_count = @ + 1]
      [] reminder_type = "lunch_first" ->
           [state EXCEPT !.lunch_reminder_count = 1]
      [] OTHER -> state

\* The assignments that follow the send in the branch of reminder_type;
\* entered says whether a sending branch was entered (and its send returned).
counter_update(reminder_type, state, entered) ==
    CASE reminder_type = "morning_first" /\ entered ->
           [state EXCEPT !.morning_reminder_count = 1]
      [] reminder_type = "morning_second" /\ entered ->
           [state EXCEPT !.morning_reminder_count = 2]
      [] reminder_type = "lunch_first" ->
           [state EXCEPT !.lunch_reminder_count = 1]
      [] OTHER -> state

\* The callback up to its first suspension: the accessor, the branch, and,
\* when the branch sends nothing, the rest of the body (save_data is the
\* caller's, as get_user_state's is).  mem is the process memory
\* [states, firing].
fire_start(mem, job, now) ==
    LET user_id == job.chat_id
        reminder_type == job.data.type
        states == get_user_state(mem.states, user_id, now)
        text == reminder_text(reminder_type, states[user_id])
        done == [states EXCEPT ![user_id] = counter_update(reminder_type, @, FALSE)]
    IN IF text = NoText
       THEN [states |-> done, firing |-> mem.firing]
       ELSE [states |-> states,
             firing |-> [mem.firing EXCEPT ![user_id] =
                           [pc |-> "send", type |-> reminder_type, text |-> text]]]

\* The scheduler starts the callbacks of the due jobs one after the other;
\* each runs to its first suspension before the event loop takes the next.
RECURSIVE run_jobs(_, _, _)
run_jobs(mem, jobs, now) ==
    IF jobs = {} THEN mem
    ELSE LET job == CHOOSE j \in jobs : TRUE
         IN run_jobs(fire_start(mem, job, now), jobs \ {job}, now)

\* FireSendDone with the branch's assignment and save_data run whether the
\* send returned or raised.
FireSendDone_always_counts(user_id, ok) ==
    LET task == firing[user_id]
        done == [user_states EXCEPT ![user_id] = counter_update(task.type, @, TRUE)]
    IN /\ task.pc = "send"
       /\ firing' = [firing EXCEPT ![user_id] = Idle]
       /\ outbox' = Out(user_id, IF ok THEN "reminder_sent" ELSE "reminder_failed", FALSE)
       /\ user_states' = done
       /\ data_file' = save_data(done, registered_users)
       /\ UNCHANGED <<today, clock, registered_users, job_queue>>

\* The send returns (ok) or raises (~ok): on return the branch's assignment
\* and save_data run; on an exception only the log line does.
FireSendDone(user_id, ok) ==
    LET task == firing[user_id]
        done == [user_states EXCEPT ![user_id] = counter_update(task.type, @, TRUE)]
    IN /\ task.pc = "send"
       /\ firing' = [firing EXCEPT ![user_id] = Idle]
       /\ outbox' = Out(user_id, IF ok THEN "reminder_sent" ELSE "reminder_failed", FALSE)
       /\ IF ok
          THEN /\ user_states' = done
               /\ data_file' = save_data(done, registered_users)
          ELSE UNCHANGED <<user_states, data_file>>
       /\ UNCHANGED <<today, clock, registered_users, job_queue>>

-----------------------------------------------------------------------------
(* Command and message handlers *)

\* start that installs the jobs on every call, registered or not.
start_always_installs(user_id) ==
    LET states == get_user_state(user_states, user_id, today)
        rolled == is_new_day(user_states, user_id, today)
        registered == registered_users \cup {user_id}
    IN /\ user_states' = states
       /\ registered_users' = registered
       /\ data_file' = save_data(states, registered)
       /\ job_queue' = schedule_daily_reminders(job_queue, user_id)
       /\ outbox' = Out(user_id, "start", rolled)
       /\ UNCHANGED <<today, clock, firing>>

\* start that assigns the new user as the registered set where the code
\* adds it.
start_replaces(user_id) ==
    LET states == get_user_state(user_states, user_id, today)
        rolled == is_new_day(user_states, user_id, today)
        registered == {user_id}
    IN /\ user_states' = states
       /\ IF user_id \notin registered_users
          THEN /\ registered_users' = registered
               /\ data_file' = save_data(states, registered)
               /\ job_queue' = schedule_daily_reminders(job_queue, user_id)
          ELSE /\ data_file' = save_data(states, registered_users)
               /\ UNCHANGED <<registered_users, job_queue>>
       /\ outbox' = Out(user_id, "start", rolled)
       /\ UNCHANGED <<today, clock, firing>>

start(user_id) ==
    LET states == get_user_state(user_states, user_id, today)
        rolled == is_new_day(user_states, user_id, today)
        registered == registered_users \cup {user_id}
    IN /\ user_states' = states
       /\ IF user_id \notin registered_users
          THEN /\ registered_users' = registered
               /\ data_file' = save_data(states, registered)
               /\ job_queue' = schedule_daily_reminders(job_queue, user_id)
          ELSE /\ data_file' = save_data(states, registered_users)
               /\ UNCHANGED <<registered_users, job_queue>>
       /\ outbox' = Out(user_id, "start", rolled)
       /\ UNCHANGED <<today, clock, firing>>

status(user_id) ==
    LET states == get_user_state(user_states, user_id, today)
        rolled == is_new_day(user_states, user_id, today)
        state == states[user_id]
    IN /\ user_states' = states
       /\ data_file' = save_data(states, registered_users)
       /\ outbox' = Out(user_id,
              IF state.morning_taken /\ state.lunch_taken
              THEN "status_all_taken" ELSE "status", rolled)
       /\ UNCHANGED <<today, clock, registered_users, job_queue, firing>>

schedule_info(user_id) ==
    /\ outbox' = Out(user_id, "schedule", FALSE)
    /\ UNCHANGED <<today, clock, user_states, registered_users, data_file,
                   job_queue, firing>>

\* reset that clears the morning flag and counter and leaves the lunch ones.
reset_morning_only(user_id) ==
    LET states == get_user_state(user_states, user_id, today)
        rolled == is_new_day(user_states, user_id, today)
        cleared == [states EXCEPT ![user_id].morning_taken = FALSE,
                                  ![user_id].morning_reminder_count = 0]
    IN /\ user_states' = cleared
       /\ data_file' = save_data(cleared, registered_users)
       /\ outbox' = Out(user_id, "reset_done", rolled)
       /\ UNCHANGED <<today, clock, registered_users, job_queue, firing>>

\* reset that clears the two flags and leaves the counters.
reset_flags_only(user_id) ==
    LET states == get_user_state(user_states, user_id, today)
        rolled == is_new_day(user_states, user_id, today)
        cleared == [states EXCEPT ![user_id].morning_taken = FALSE,
                                  ![user_id].lunch_taken = FALSE]
    IN /\ user_states' = cleared
       /\ data_file' = save_data(cleared, registered_users)
       /\ outbox' = Out(user_id, "reset_done", rolled)
       /\ UNCHANGED <<today, clock, registered_users, job_queue, firing>>

\* reset without its own save_data: the file keeps what the accessor saved.
reset_without_save(user_id) ==
    LET states == get_user_state(user_states, user_id, today)
        rolled == is_new_day(user_states, user_id, today)
        cleared == [states EXCEPT ![user_id].morning_taken = FALSE,
                                  ![user_id].lunch_taken = FALSE,
                                  ![user_id].morning_reminder_count = 0,
                                  ![user_id].lunch_reminder_count = 0]
    IN /\ user_states' = cleared
       /\ data_file' = save_data(states, registered_users)
       /\ outbox' = Out(user_id, "reset_done", rolled)
       /\ UNCHANGED <<today, clock, registered_users, job_queue, firing>>

reset(user_id) ==
    LET states == get_user_state(user_states, user_id, today)
        rolled == is_new_day(user_states, user_id, today)
        cleared == [states EXCEPT ![user_id].morning_taken = FALSE,
                                  ![user_id].lunch_taken = FALSE,
                                  ![user_id].morning_reminder_count = 0,
                                  ![user_id].lunch_reminder_count = 0]
    IN /\ user_states' = cleared
       /\ data_file' = save_data(cleared, registered_users)
       /\ outbox' = Out(user_id, "reset_done", rolled)
       /\ UNCHANGED <<today, clock, registered_users, job_queue, firing>>

\* handle_response whose affirmative branch sets every flag that is not set
\* (two ifs in place of if / elif).
handle_response_both(user_id, message) ==
    LET states == get_user_state(user_states, user_id, today)
        rolled == is_new_day(user_states, user_id, today)
        state == states[user_id]
        text == lower_strip(message)
        both == [states EXCEPT ![user_id].morning_taken = TRUE,
                               ![user_id].lunch_taken = TRUE]
    IN /\ IF text = "da"
          THEN /\ user_states' = both
               /\ data_file' = save_data(both, registered_users)
               /\ outbox' = Out(user_id,
                      IF ~state.morning_taken THEN "morning_accepted"
                      ELSE IF ~state.lunch_taken THEN "lunch_accepted"
                      ELSE "all_taken", rolled)
          ELSE /\ user_states' = states
               /\ data_file' = save_data(states, registered_users)
               /\ outbox' = Out(user_id,
                      IF text = "net" THEN "remind_later" ELSE "help", rolled)
       /\ UNCHANGED <<today, clock, registered_users, job_queue, firing>>

\* handle_response whose negative branch takes back the last confirmation.
handle_response_negative_clears(user_id, message) ==
    LET states == get_user_state(user_states, user_id, today)
        rolled == is_new_day(user_states, user_id, today)
        state == states[user_id]
        text == lower_strip(message)
        morning == [states EXCEPT ![user_id].morning_taken = TRUE]
        lunch == [states EXCEPT ![user_id].lunch_taken = TRUE]
        undone == IF state.lunch_taken
                  THEN [states EXCEPT ![user_id].lunch_taken = FALSE]
                  ELSE [states EXCEPT ![user_id].morning_taken = FALSE]
    IN /\ IF text = "da"
          THEN IF ~state.morning_taken
               THEN /\ user_states' = morning
                    /\ data_file' = save_data(morning, registered_users)
                    /\ outbox' = Out(user_id, "morning_accepted", rolled)
               ELSE IF ~state.lunch_taken
               THEN /\ user_states' = lunch
                    /\ data_file' = save_data(lunch, registered_users)
                    /\ outbox' = Out(user_id, "lunch_accepted", rolled)
               ELSE /\ user_states' = states
                    /\ data_file' = save_data(states, registered_users)
                    /\ outbox' = Out(user_id, "all_taken", rolled)
          ELSE IF text = "net"
          THEN /\ user_states' = undone
               /\ data_file' = save_data(undone, registered_users)
               /\ outbox' = Out(user_id, "remind_later", rolled)
          ELSE /\ user_states' = states
               /\ data_file' = save_data(states, registered_users)
               /\ outbox' = Out(user_id, "help", rolled)
       /\ UNCHANGED <<today, clock, registered_users, job_queue, firing>>

handle_response(user_id, message) ==
    LET states == get_user_state(user_states, user_id, today)
        rolled == is_new_day(user_states, user_id, today)
        state == states[user_id]
        text == lower_strip(message)
        morning == [states EXCEPT ![user_id].morning_taken = TRUE]
        lunch == [states EXCEPT ![user_id].lunch_taken = TRUE]
    IN /\ IF text = "da"
          THEN IF ~state.morning_taken
               THEN /\ user_states' = morning
                    /\ data_file' = save_data(morning, registered_users)
                    /\ outbox' = Out(user_id, "morning_accepted", rolled)
               ELSE IF ~state.lunch_taken
               THEN /\ user_states' = lunch
                    /\ data_file' = save_data(lunch, registered_users)
                    /\ outbox' = Out(user_id, "lunch_accepted", rolled)
               ELSE /\ user_states' = states
                    /\ data_file' = save_data(states, registered_users)
                    /\ outbox' = Out(user_id, "all_taken", rolled)
          ELSE /\ user_states' = states
               /\ data_file' = save_data(states, registered_users)
               /\ outbox' = Out(user_id,
                      IF text = "net" THEN "remind_later" ELSE "help", rolled)
       /\ UNCHANGED <<today, clock, registered_users, job_queue, firing>>

-----------------------------------------------------------------------------
(* Process start, and the passing of time *)

RECURSIVE install_all(_, _)
install_all(queue, users) ==
    IF users = {} THEN queue
    ELSE LET user_id == CHOOSE u \in users : TRUE
         IN install_all(schedule_daily_reminders(queue, user_id), users \ {user_id})

\* The process ends and starts again: the new process has an empty job
\* queue, loads the data file and installs the jobs of the registered users.
post_init ==
    /\ user_states' = load_states(data_file)
    /\ registered_users' = load_registered(data_file)
    /\ job_queue' = install_all(EmptyBag, load_registered(data_file))
    /\ firing' = [u \in Users |-> Idle]
    /\ outbox' = Started
    /\ UNCHANGED <<today, clock, data_file>>

Quiet == \A u \in Users : firing[u].pc = "idle"

\* The next slot instant of the day arrives and the scheduler runs the jobs
\* of that slot and day.  A send ends within seconds and the instants are at
\* least twenty minutes apart, so the callbacks of the instant before have
\* ended; so have they at midnight.
SlotInstant ==
    LET jobs == due_jobs(job_queue, today, clock + 1)
        mem == run_jobs([states |-> user_states, firing |-> firing], jobs, today)
    IN /\ clock < Len(ReminderTypes)
       /\ Quiet
       /\ clock' = clock + 1
       /\ user_states' = mem.states
       /\ firing' = mem.firing
       /\ data_file' = IF jobs = {} THEN data_file
                       ELSE save_data(mem.states, registered_users)
       /\ outbox' = NoOut
       /\ UNCHANGED <<today, registered_users, job_queue>>

Midnight ==
    /\ clock = Len(ReminderTypes)
    /\ Quiet
    /\ today < MaxDay
    /\ today' = today + 1
    /\ clock' = 0
    /\ outbox' = NoOut
    /\ UNCHANGED <<user_states, registered_users, data_file, job_queue, firing>>

-----------------------------------------------------------------------------

Init ==
    /\ today = 0
    /\ clock = 0
    /\ user_states = <<>>
    /\ registered_users = {}
    /\ data_file = NoFile
    /\ job_queue = EmptyBag
    /\ firing = [u \in Users |-> Idle]
    /\ outbox = Started

Next ==
    \/ \E user_id \in Users, ok \in BOOLEAN : FireSendDone(user_id, ok)
    \/ \E user_id \in Users : start(user_id)
    \/ \E user_id \in Users : status(user_id)
    \/ \E user_id \in Users : schedule_info(user_id)
    \/ \E user_id \in Users : reset(user_id)
    \/ \E user_id \in Users, message \in UserTexts : handle_response(user_id, message)
    \/ post_init
    \/ SlotInstant
    \/ Midnight

Spec == Init /\ [][Next]_vars

-----------------------------------------------------------------------------
(* install called again and again on one job queue *)

\* A caller invokes schedule_daily_reminders for user_id on the queue as it
\* is, at most MaxInstalls times per user.
install(user_id) ==
    /\ jobs_of(job_queue, user_id) < 10 * MaxInstalls
    /\ job_queue' = schedule_daily_reminders(job_queue, user_id)
    /\ UNCHANGED <<today, clock, user_states, registered_users, data_file,
                   firing, outbox>>

NextInstall == \E user_id \in Users : install(user_id)

SpecInstall == Init /\ [][NextInstall]_vars

-----------------------------------------------------------------------------
(* Properties *)

Present(user_id) == user_id \in DOMAIN user_states

Current(user_id) ==
    Present(user_id) /\ user_states[user_id].last_reset = isoformat(today)

Persisted(file, states, user_id) ==
    /\ file.exists
    /\ str(user_id) \in DOMAIN file.states
    /\ file.states[str(user_id)] = to_dict(states[user_id])

\* C1: after install has been called for a user any number of times (once,
\* twice, ...), the job queue holds exactly 10 jobs of that user; a user for
\* whom it was never called has none.
C1_TenTriggersAfterReinstall ==
    \A user_id \in Users : jobs_of(job_queue, user_id) \in {0, 10}

\* C2: a reminder whose send is in flight and an affirmative reply lose no
\* write.  The reply that arrives while the send is in flight sets its flag,
\* keeps both counters and the suspended callback, and is persisted; the
\* callback that resumes after a successful send writes its counter, keeps
\* both flags as the reply left them, and persists the state with both.
C2_NoLostWrite ==
    [][\A user_id \in Users :
         LET before == user_states[user_id]
             after == user_states'[user_id]
             task == firing[user_id]
         IN /\ (/\ task.pc = "send"
                /\ outbox'.chat_id = user_id
                /\ outbox'.kind \in {"morning_accepted", "lunch_accepted"})
               => /\ firing'[user_id] = task
                  /\ after.morning_taken
                  /\ after.lunch_taken = (outbox'.kind = "lunch_accepted")
                  /\ after.morning_reminder_count = before.morning_reminder_count
                  /\ after.lunch_reminder_count = before.lunch_reminder_count
                  /\ Persisted(data_file', user_states', user_id)
            /\ (/\ task.pc = "send"
                /\ outbox' = Out(user_id, "reminder_sent", FALSE))
               => /\ after.morning_taken = before.morning_taken
                  /\ after.lunch_taken = before.lunch_taken
                  /\ (task.type = "morning_first" => after.morning_reminder_count = 1)
                  /\ (task.type = "morning_second" => after.morning_reminder_count = 2)
                  /\ (task.type = "lunch_first" => after.lunch_reminder_count = 1)
                  /\ Persisted(data_file', user_states', user_id)
      ]_vars

\* The morning_first send of user 1 returned after the user's affirmative
\* reply had arrived during it: flag and counter are both there, in memory
\* and in the file.
C2_Witness ==
    /\ today = 0
    /\ clock = 1
    /\ outbox = Out(1, "reminder_sent", FALSE)
    /\ Present(1)
    /\ user_states[1].morning_taken
    /\ user_states[1].morning_reminder_count = 1
    /\ Persisted(data_file, user_states, 1)

\* C3: between the moment a firing has read the flags and the moment it has
\* written its counter and persisted, no reply of the same user and no
\* /reset of the same user is handled.
C3_FiringSerialized ==
    \A user_id \in Users :
        firing[user_id].pc = "send"
        => ~(/\ outbox.chat_id = user_id
             /\ outbox.kind \in {"morning_accepted", "lunch_accepted", "all_taken",
                                 "remind_later", "help", "reset_done"})

\* C4: an affirmative reply to a state of the current day: with both flags
\* false it sets morning_taken only, with morning_taken set and lunch_taken
\* not it sets lunch_taken only, and with both set it changes no field and
\* answers that all is taken.
C4_AffirmativeReplies ==
    [][\A user_id \in Users :
         (handle_response(user_id, "Da") /\ Current(user_id))
         => LET before == user_states[user_id]
                after == user_states'[user_id]
            IN /\ (~before.morning_taken /\ ~before.lunch_taken)
                  => /\ after = [before EXCEPT !.morning_taken = TRUE]
                     /\ outbox'.kind = "morning_accepted"
               /\ (before.morning_taken /\ ~before.lunch_taken)
                  => /\ after = [before EXCEPT !.lunch_taken = TRUE]
                     /\ outbox'.kind = "lunch_accepted"
               /\ (before.morning_taken /\ before.lunch_taken)
                  => /\ after = before
                     /\ outbox'.kind = "all_taken"
      ]_vars

\* The third affirmative reply of the day has been answered.
C4_Witness ==
    /\ outbox = Out(1, "all_taken", FALSE)
    /\ Current(1)
    /\ user_states[1].morning_taken
    /\ user_states[1].lunch_taken

\* The state a user has after the accessor found none, or one of another day.
Fresh(d) ==
    [morning_taken |-> FALSE,
     lunch_taken |-> FALSE,
     morning_reminder_count |-> 0,
     lunch_reminder_count |-> 0,
     last_reset |-> isoformat(d)]

\* The replies of the handlers that call the accessor and then change no
\* field of the state.
AccessorOnly ==
    {"start", "status", "status_all_taken", "remind_later", "help", "all_taken"}

\* C5: flags and counters are read and written on a state of the current
\* date only.  The callback suspended in its send holds a state of today;
\* every step that changes a user's state leaves it dated today; a step on a
\* state of another day carries none of its flags or counters over (the only
\* field that can be set is morning_taken, by an accepted reply); and what
\* such a step answers or sends is what a state with both flags false gives.
C5_RolloverBeforeUse ==
    [][\A user_id \in Users :
         LET stale == Present(user_id) /\ ~Current(user_id)
             after == user_states'[user_id]
             touched == /\ user_id \in DOMAIN user_states'
                        /\ (Present(user_id) => after # user_states[user_id])
         IN /\ firing[user_id].pc = "send" => Current(user_id)
            /\ touched => after.last_reset = isoformat(today')
            /\ (stale /\ touched)
               => /\ ~after.lunch_taken
                  /\ after.morning_reminder_count = 0
                  /\ after.lunch_reminder_count = 0
                  /\ (after.morning_taken
                      => outbox' = Out(user_id, "morning_accepted", TRUE))
            /\ (stale /\ outbox'.chat_id = user_id)
               => outbox'.kind \notin {"status_all_taken", "all_taken", "lunch_accepted"}
            /\ (stale /\ firing'[user_id].pc = "send")
               => firing'[user_id].text \in
                     {Text("morning_first", <<>>),
                      Text("morning_second", <<>>),
                      Text("lunch_first_overdue_morning", <<>>),
                      Text("lunch_second_overdue_both", <<>>),
                      Text("final_missing", <<"morning", "lunch">>)}
      ]_vars

\* The first reply of a new day was an affirmative one: the accessor rolled
\* the state over, and only morning_taken is set.
C5_Witness ==
    /\ today = 1
    /\ outbox = Out(1, "morning_accepted", TRUE)
    /\ Present(1)
    /\ user_states[1] = [Fresh(1) EXCEPT !.morning_taken = TRUE]

\* C6: a call of the accessor for a user whose state is of another day
\* leaves both flags false, both counters 0 and last_reset today, whatever
\* the state held (seen at the handlers that only call the accessor).
C6_RolloverZeroes ==
    [][\A user_id \in Users :
         (/\ Present(user_id)
          /\ ~Current(user_id)
          /\ outbox'.chat_id = user_id
          /\ outbox'.kind \in AccessorOnly)
         => user_states'[user_id] = Fresh(today)
      ]_vars

\* /status was the first touch of the new day.
C6_Witness ==
    /\ today = 1
    /\ outbox = Out(1, "status", TRUE)
    /\ Present(1)
    /\ user_states[1] = Fresh(1)

\* C7: a call of the accessor for a user whose state is of today changes no
\* field of it, whatever was set since the day's first call.
C7_RolloverIdempotent ==
    [][\A user_id \in Users :
         (/\ Current(user_id)
          /\ outbox'.chat_id = user_id
          /\ outbox'.kind \in AccessorOnly)
         => /\ user_states'[user_id] = user_states[user_id]
            /\ ~outbox'.rolled
      ]_vars

\* /status on the second day, after the day's morning_first was sent and
\* answered: flag and counter are still there.
C7_Witness ==
    /\ today = 1
    /\ outbox = Out(1, "status", FALSE)
    /\ Current(1)
    /\ user_states[1].morning_taken
    /\ user_states[1].morning_reminder_count = 1

Fired(d, i) == {job.chat_id : job \in due_jobs(job_queue, d, i)}

\* C9: at a slot instant the callback decides from the flags it finds (those
\* of the state, or false after a rollover): the morning slots send iff
\* morning_taken is false; the lunch slots send the combined variant iff
\* both flags are false, the plain variant iff only morning_taken is set,
\* and nothing iff lunch_taken is set.
C9_DecisionAtFireTime ==
    [][clock' = clock + 1 =>
         \A user_id \in Fired(today, clock') :
           LET slot == ReminderTypes[clock']
               state == user_states'[user_id]
               task == firing'[user_id]
               found == IF Current(user_id) THEN user_states[user_id] ELSE Fresh(today)
               combined == IF slot = "lunch_first"
                           THEN "lunch_first_overdue_morning"
                           ELSE "lunch_second_overdue_both"
           IN /\ state.morning_taken = found.morning_taken
              /\ state.lunch_taken = found.lunch_taken
              /\ task.pc = "send" => task.type = slot
              /\ slot \in {"morning_first", "morning_second"}
                 => /\ (task.pc = "send") <=> ~found.morning_taken
                    /\ task.pc = "send" => task.text = Text(slot, <<>>)
              /\ slot \in {"lunch_first", "lunch_second"}
                 => /\ (task.pc = "send" /\ task.text = Text(combined, <<>>))
                       <=> (~found.morning_taken /\ ~found.lunch_taken)
                    /\ (task.pc = "send" /\ task.text = Text(slot, <<>>))
                       <=> (found.morning_taken /\ ~found.lunch_taken)
                    /\ (task.pc = "idle") <=> found.lunch_taken
      ]_vars

\* lunch_first has just fired for a user who took the morning dose only: the
\* plain lunch reminder is being sent.
C9_Witness ==
    /\ clock = 3
    /\ outbox = NoOut
    /\ firing[1] = [pc |-> "send", type |-> "lunch_first",
                    text |-> Text("lunch_first", <<>>)]
    /\ user_states[1].morning_taken
    /\ ~user_states[1].lunch_taken

\* The counter assignment of the table for slot, applied to state.
Counted(slot, state) ==
    CASE slot = "morning_first" -> [state EXCEPT !.morning_reminder_count = 1]
      [] slot = "morning_second" -> [state EXCEPT !.morning_reminder_count = 2]
      [] slot = "lunch_first" -> [state EXCEPT !.lunch_reminder_count = 1]
      [] OTHER -> state

\* The part of the table that is decided at the slot instant: a callback that
\* goes on to send has written nothing yet, and one that sends nothing has set
\* lunch_reminder_count to 1 if the slot is lunch_first and no other field; a
\* morning slot goes on to send, and so to its counter, iff morning_taken is
\* false.
TableAtInstant ==
    clock' = clock + 1 =>
      \A user_id \in Fired(today, clock') :
        LET slot == ReminderTypes[clock']
            found == IF Current(user_id) THEN user_states[user_id] ELSE Fresh(today)
        IN /\ user_states'[user_id] =
                IF firing'[user_id].pc = "idle" /\ slot = "lunch_first"
                THEN Counted(slot, found)
                ELSE found
           /\ slot \in {"morning_first", "morning_second"}
              => (firing'[user_id].pc = "send" <=> ~found.morning_taken)

\* The callback of user_id ends after its send, with one of outcomes.
SendEnds(user_id, outcomes) ==
    /\ firing[user_id].pc = "send"
    /\ outbox'.chat_id = user_id
    /\ outbox'.kind \in outcomes

Missing(state) ==
    (IF ~state.morning_taken THEN <<"morning">> ELSE <<>>)
    \o (IF ~state.lunch_taken THEN <<"lunch">> ELSE <<>>)

\* C11: when the final slot fires, a message is sent in every case: the
\* congratulation, with no dose names, iff both flags are set, and otherwise
\* the last reminder listing exactly the doses whose flag is false (morning,
\* lunch, or morning then lunch).  The firing changes no field of the state
\* the accessor returned, neither at the instant nor when its send ends,
\* delivered or not.
C11_FinalSlot ==
    [][/\ (clock = 4 /\ clock' = 5)
          => \A user_id \in Fired(today, 5) :
               LET found == IF Current(user_id) THEN user_states[user_id] ELSE Fresh(today)
                   task == firing'[user_id]
               IN /\ task.pc = "send"
                  /\ task.type = "final"
                  /\ (task.text = Text("congratulation", <<>>))
                     <=> (found.morning_taken /\ found.lunch_taken)
                  /\ ~(found.morning_taken /\ found.lunch_taken)
                     => task.text = Text("final_missing", Missing(found))
                  /\ task.text.kind = "congratulation" => task.text.names = <<>>
                  /\ user_states'[user_id] = found
       /\ \A user_id \in Users :
            (/\ SendEnds(user_id, {"reminder_sent", "reminder_failed"})
             /\ firing[user_id].type = "final")
            => user_states'[user_id] = user_states[user_id]
      ]_vars

\* The final slot has just fired for a user who took the morning dose only:
\* the last reminder names the lunch dose alone.
C11_Witness ==
    /\ clock = 5
    /\ outbox = NoOut
    /\ firing[1] = [pc |-> "send", type |-> "final",
                    text |-> Text("final_missing", <<"lunch">>)]
    /\ user_states[1].morning_taken
    /\ ~user_states[1].lunch_taken

\* The jobs of user_id that run at slot instant i of date d.
due_of(user_id, d, i) ==
    {job \in due_jobs(job_queue, d, i) : job.chat_id = user_id}

\* C12: on the current date each of the five slots has exactly one job per
\* registered user, and that job is of the weekend table iff the date is a
\* Saturday or a Sunday (is_weekend), of the weekday table otherwise.
C12_DayTypeAgrees ==
    \A user_id \in registered_users :
      \A i \in DOMAIN ReminderTypes :
        /\ Cardinality(due_of(user_id, today, i)) = 1
        /\ \A job \in due_of(user_id, today, i) :
             /\ job_queue[job] = 1
             /\ (job.name[3] = "weekend") <=> is_weekend(today)
             /\ (job.name[3] = "weekday") <=> ~is_weekend(today)

\* C13: whenever control is with the event loop (between two steps), the
\* data file holds the states and the registered users that the memory
\* holds: every assignment to a flag, a counter or the registered set was
\* followed by save_data before the handler or callback suspended or ended.
\* Before the first save there is neither a file nor anything in memory.
C13_PersistedEqualsMemory ==
    IF data_file.exists
    THEN /\ DOMAIN data_file.states = {str(u) : u \in DOMAIN user_states}
         /\ \A u \in DOMAIN user_states : data_file.states[str(u)] = to_dict(user_states[u])
         /\ data_file.registered_users = registered_users
    ELSE user_states = <<>> /\ registered_users = {}

\* lunch_first has fired for a registered user who had confirmed both doses
\* and whose morning reminder had been delivered: the branch sent nothing,
\* assigned lunch_reminder_count, and the file has it.
C13_Witness ==
    /\ clock = 3
    /\ outbox = NoOut
    /\ firing[1] = Idle
    /\ Present(1)
    /\ user_states[1].morning_reminder_count = 1
    /\ user_states[1].lunch_reminder_count = 1
    /\ Persisted(data_file, user_states, 1)
    /\ data_file.registered_users = {1}

\* The send of a morning reminder of user_id returns: one more morning
\* reminder has been delivered.
MorningDelivered(user_id) ==
    /\ SendEnds(user_id, {"reminder_sent"})
    /\ firing[user_id].type \in {"morning_first", "morning_second"}

\* C14, as claimed: morning_reminder_count is the number of morning reminders
\* delivered to the user on the current day, hence 0, 1 or 2.  Step by step:
\* a state that is created or rolled over starts at 0, each delivery of a
\* morning reminder adds one to the counter of a state of today, and no other
\* step on a state of today (a reply, /reset, a failed send, another slot)
\* changes it.
C14_CountsDelivered ==
    [][\A user_id \in DOMAIN user_states' :
         LET after == user_states'[user_id].morning_reminder_count
         IN /\ after \in {0, 1, 2}
            /\ IF Current(user_id)
               THEN after = user_states[user_id].morning_reminder_count
                            + (IF MorningDelivered(user_id) THEN 1 ELSE 0)
               ELSE (Present(user_id) /\ user_states'[user_id] = user_states[user_id])
                    \/ after = 0
      ]_vars

\* C14, amended: morning_reminder_count is 0, 1 or 2 and names the last
\* morning reminder delivered since the state was created, rolled over or
\* reset: the delivery of morning_first sets it to 1, the delivery of
\* morning_second sets it to 2 (whether or not morning_first was delivered),
\* /reset, creation and the rollover set it to 0, and nothing else changes it
\* (not a reply, a failed send, a slot that sends nothing, or a restart).
C14_LastDeliveredOrdinal ==
    [][\A user_id \in DOMAIN user_states' :
         LET after == user_states'[user_id].morning_reminder_count
         IN /\ after \in {0, 1, 2}
            /\ IF MorningDelivered(user_id)
               THEN after = IF firing[user_id].type = "morning_first" THEN 1 ELSE 2
               ELSE IF outbox'.chat_id = user_id /\ outbox'.kind = "reset_done"
               THEN after = 0
               ELSE IF Present(user_id)
                       /\ user_states'[user_id].last_reset = user_states[user_id].last_reset
               THEN after = user_states[user_id].morning_reminder_count
               ELSE after = 0
      ]_vars

\* morning_second has been delivered to a user who has not confirmed the
\* morning dose: the counter is 2.
C14_Witness ==
    /\ clock = 2
    /\ outbox = Out(1, "reminder_sent", FALSE)
    /\ Present(1)
    /\ user_states[1].morning_reminder_count = 2
    /\ ~user_states[1].morning_taken

\* C15: a reply with the negative answer, or with a text that is neither
\* answer, is acknowledged (the negative one) or answered with the help text
\* (any other), and leaves the user's state as the accessor returns it: as it
\* was if it is of today, created or rolled over otherwise.  No other user's
\* state, no job, no pending callback and no registration changes.
C15_OtherRepliesChangeNothing ==
    [][\A user_id \in Users :
         \A message \in {"Net", "hello"} :
           (outbox'.chat_id = user_id /\ handle_response(user_id, message))
           => /\ outbox'.kind = (IF message = "Net" THEN "remind_later" ELSE "help")
              /\ DOMAIN user_states' = DOMAIN user_states \cup {user_id}
              /\ user_states'[user_id] =
                   IF Current(user_id) THEN user_states[user_id] ELSE Fresh(today)
              /\ \A other \in DOMAIN user_states \ {user_id} :
                   user_states'[other] = user_states[other]
              /\ job_queue' = job_queue
              /\ firing' = firing
              /\ registered_users' = registered_users
      ]_vars

\* The user answered the delivered morning_first with the negative answer:
\* flag and counter are as the reminder left them.
C15_Witness ==
    /\ clock = 1
    /\ outbox = Out(1, "remind_later", FALSE)
    /\ firing[1] = Idle
    /\ Current(1)
    /\ ~user_states[1].morning_taken
    /\ user_states[1].morning_reminder_count = 1

\* C16: the registered set only grows.  A start of a user leaves that user
\* registered; every step keeps every registered user (replies, /status,
\* /reset, /schedule, slot instants, ends of sends, midnight, repeated start,
\* and the reload at a restart as well); and the only step that changes the
\* set is a start, which adds its user.
C16_RegisteredOnlyGrows ==
    [][/\ registered_users \subseteq registered_users'
       /\ \A user_id \in Users :
            (outbox'.chat_id = user_id /\ start(user_id))
            => user_id \in registered_users'
       /\ registered_users' # registered_users
          => /\ outbox'.kind = "start"
             /\ registered_users' = registered_users \cup {outbox'.chat_id}
      ]_vars

\* User 1, to whom a morning reminder was delivered today (so registered
\* before), has sent /start again, and both users are registered.
C16_Witness ==
    /\ outbox = Out(1, "start", FALSE)
    /\ registered_users = Users
    /\ Current(1)
    /\ user_states[1].morning_reminder_count = 1

\* The texts that ask about the morning dose, and those that ask about the
\* lunch dose (the combined variants and the last reminder ask about both or
\* about the doses they name).
AsksMorning(text) ==
    \/ text.kind \in {"morning_first", "morning_second",
                      "lunch_first_overdue_morning", "lunch_second_overdue_both"}
    \/ text.kind = "final_missing" /\ \E k \in DOMAIN text.names : text.names[k] = "morning"

AsksLunch(text) ==
    \/ text.kind \in {"lunch_first", "lunch_second",
                      "lunch_first_overdue_morning", "lunch_second_overdue_both"}
    \/ text.kind = "final_missing" /\ \E k \in DOMAIN text.names : text.names[k] = "lunch"

\* C17: once both flags are set they stay set until /reset or the rollover
\* clears them, and a slot that fires for such a user sends nothing
\* (morning_first, morning_second, lunch_first, lunch_second) or the
\* congratulation (final).  Conversely a slot that fires for a user whose
\* morning flag is not set sends a text that asks about the morning dose, and
\* a lunch slot or the final slot that fires for a user whose lunch flag is
\* not set sends a text that asks about the lunch dose.
C17_RemindUntilConfirmed ==
    [][/\ \A user_id \in DOMAIN user_states :
            LET before == user_states[user_id]
                after == user_states'[user_id]
            IN (/\ before.morning_taken /\ before.lunch_taken
                /\ ~(after.morning_taken /\ after.lunch_taken))
               => \/ outbox' = Out(user_id, "reset_done", FALSE)
                  \/ /\ before.last_reset # isoformat(today)
                     /\ after.last_reset = isoformat(today)
       /\ clock' = clock + 1
          => \A user_id \in Fired(today, clock') :
               LET found == IF Current(user_id) THEN user_states[user_id] ELSE Fresh(today)
                   task == firing'[user_id]
               IN /\ (found.morning_taken /\ found.lunch_taken)
                     => IF clock' = 5
                        THEN task.pc = "send" /\ task.text = Text("congratulation", <<>>)
                        ELSE task.pc = "idle"
                  /\ ~found.morning_taken
                     => task.pc = "send" /\ AsksMorning(task.text)
                  /\ (~found.lunch_taken /\ clock' >= 3)
                     => task.pc = "send" /\ AsksLunch(task.text)
      ]_vars

\* lunch_second has fired for a registered user who had confirmed both doses
\* after the day's first reminder: nothing is being sent.
C17_Witness ==
    /\ clock = 4
    /\ outbox = NoOut
    /\ 1 \in registered_users
    /\ firing[1] = Idle
    /\ Current(1)
    /\ user_states[1].morning_taken
    /\ user_states[1].lunch_taken
    /\ user_states[1].morning_reminder_count = 1

\* C18: /reset leaves the caller's state with both flags false, both
\* counters 0 and last_reset today, and persisted so; it changes no other
\* user's state, no registration, no job and no pending callback.  A slot
\* that fires for a state with both flags false (as /reset leaves it) sends
\* what it sends to a user who has confirmed nothing: the morning reminder of
\* the slot, the combined lunch reminder, or the last reminder naming both
\* doses.
C18_ResetStartsOver ==
    [][/\ \A user_id \in Users :
            (outbox'.chat_id = user_id /\ reset(user_id))
            => /\ outbox'.kind = "reset_done"
               /\ DOMAIN user_states' = DOMAIN user_states \cup {user_id}
               /\ user_states'[user_id] = Fresh(today)
               /\ Persisted(data_file', user_states', user_id)
               /\ \A other \in DOMAIN user_states \ {user_id} :
                    user_states'[other] = user_states[other]
               /\ registered_users' = registered_users
               /\ job_queue' = job_queue
               /\ firing' = firing
       /\ clock' = clock + 1
          => \A user_id \in Fired(today, clock') :
               (/\ Current(user_id)
                /\ ~user_states[user_id].morning_taken
                /\ ~user_states[user_id].lunch_taken)
               => /\ firing'[user_id].pc = "send"
                  /\ firing'[user_id].text =
                       CASE clock' = 1 -> Text("morning_first", <<>>)
                         [] clock' = 2 -> Text("morning_second", <<>>)
                         [] clock' = 3 -> Text("lunch_first_overdue_morning", <<>>)
                         [] clock' = 4 -> Text("lunch_second_overdue_both", <<>>)
                         [] OTHER -> Text("final_missing", <<"morning", "lunch">>)
      ]_vars

\* Registered user 1 has sent /reset after lunch_first, while user 2 has both
\* doses confirmed: user 1 starts over, user 2 keeps the flags.
C18_Witness ==
    /\ clock = 3
    /\ outbox = Out(1, "reset_done", FALSE)
    /\ registered_users = Users
    /\ user_states[1] = Fresh(today)
    /\ user_states[2].morning_taken
    /\ user_states[2].lunch_taken
    /\ user_states[2].lunch_reminder_count = 1
    /\ jobs_of(job_queue, 1) = 10

\* C19: in every reachable state, in memory and in the file, a state with
\* lunch_taken set has morning_taken set: morning_taken = false with
\* lunch_taken = true is never reached.
C19_LunchImpliesMorning ==
    /\ \A user_id \in DOMAIN user_states :
         user_states[user_id].lunch_taken => user_states[user_id].morning_taken
    /\ \A key \in DOMAIN data_file.states :
         data_file.states[key].lunch_taken => data_file.states[key].morning_taken

\* On the second day, after the rollover, the user has confirmed the lunch
\* dose with the second affirmative reply of the day.
C19_Witness ==
    /\ today = 1
    /\ outbox = Out(1, "lunch_accepted", FALSE)
    /\ Current(1)
    /\ user_states[1].lunch_taken
    /\ user_states[1].morning_taken

\* C20: in every state of a process that installs through post_init and
\* start only, a registered user has exactly 10 jobs, one for each slot of
\* the weekday table and one for each slot of the weekend table, and a user
\* that is not registered has none.
C20_TenTriggersPerRegistered ==
    \A user_id \in Users :
      IF user_id \in registered_users
      THEN /\ jobs_of(job_queue, user_id) = 10
           /\ \A t \in TypeSet :
                \A suffix \in {"weekday", "weekend"} :
                  \E job \in BagToSet(job_queue) :
                    /\ job.name = <<t, user_id, suffix>>
                    /\ job.chat_id = user_id
                    /\ job.data.type = t
                    /\ job_queue[job] = 1
      ELSE jobs_of(job_queue, user_id) = 0

\* User 1, registered before today's morning reminder was delivered, has
\* sent /start again; user 2 has never sent it.
C20_Witness ==
    /\ outbox = Out(1, "start", FALSE)
    /\ registered_users = {1}
    /\ Current(1)
    /\ user_states[1].morning_reminder_count = 2
    /\ jobs_of(job_queue, 1) = 10
    /\ jobs_of(job_queue, 2) = 0

=============================================================================
